---- MODULE Spec2Model ----
(***************************************************************************)
(* The basemap ordering notebooks (requests_order_basemaps.ipynb and       *)
(* SDK_order_basemaps.ipynb) and the two listing cells of the analytics    *)
(* quickstart notebook as a state machine: the code cells of the           *)
(* notebook that is run execute top to bottom against the remote ordering  *)
(* service and the basemap service.  A cell that raises stops the run.     *)
(* poll_for_success is modelled statement by statement; the service        *)
(* changes the state of an order on its own between steps.                 *)
(***************************************************************************)
EXTENDS Integers, Sequences, FiniteSets, TLC

(* ---------------------------------------------------------------- bounds *)
\* status queries one poll_for_success call may issue in the model
MaxQueries == 4
\* largest loop bound (num_loops of the docstring) a caller may ask for
MaxLoops == 2
\* most quads the quad lookup returns
MaxQuads == 2

(* ------------------------------------------------------------- constants *)
\* `status_code < 400` of the mosaic search and of the quad-id submission
BadStatus == 400
\* time.sleep(10)
PollInterval == 10

\* limit = 1000 of the feeds and the subscriptions listing
Limit == 1000

ORDERS_API_URL == "https://api.planet.com/compute/ops/orders/v2"

\* variants of end_states: a non-terminal state listed, a terminal one left out
end_states_with_running == {"success", "failed", "partial", "running"}
end_states_without_partial == {"success", "failed"}
end_states_without_failed == {"success", "partial"}
end_states_with_cancelled == {"success", "failed", "partial", "cancelled"}

\* end_states = ['success', 'failed', 'partial']
end_states == {"success", "failed", "partial"}

(* ------------------------------------------------- the remote collaborators *)
\* identifiers the ordering service hands out, in this order
OrderIds == <<"o1", "o2">>
\* states the service reports for an order
ServiceStates == {"queued", "running", "success", "failed", "partial", "cancelled"}
\* quad identifiers the basemap service knows
QuadIds == {"q1", "q2"}
\* the 'mosaics' lists a search may come back with
MosaicLists == {<<>>, <<"m1">>, <<"m2", "m1">>}
\* the numbers of records a listing may come back with
Counts == {0, Limit - 1, Limit, Limit + 1}

\* an HTTP response: the status line, the kind of body, and for an order
\* document the order's id, its state and the number of the query it answers
Resp(code, body, id, st, n) ==
    [status_code |-> code, body |-> body, id |-> id, state |-> st, serial |-> n]
NoResp == Resp(0, "none", "", "", 0)
\* what the service answers when it refuses or cannot serve a request
ErrorResponses == {Resp(400, "error_json", "", "", 0), Resp(500, "not_json", "", "", 0)}

\* an exception: its class, the response object it carries (NoResp: none) and
\* the cell that raised it
Exc(kind, resp, c) == [kind |-> kind, response |-> resp, cell |-> c]
NoExc == Exc("none", NoResp, "none")

\* r.json()[key] on a response: the exception it raises, "none" when it works
json_key_error(resp) ==
    IF resp.body = "not_json" THEN "JSONDecodeError"
    ELSE IF resp.body = "error_json" THEN "KeyError"
    ELSE "none"

\* what that exception carries of the response: a JSONDecodeError keeps the
\* text it could not parse (doc), a KeyError only the missing key
json_key_carries(resp) == IF resp.body = "not_json" THEN resp ELSE NoResp

\* the results listing of an order document: _links.results
results_of(resp) ==
    IF resp.state \in {"success", "partial"} THEN <<resp.id, resp.state>> ELSE <<>>

\* what a results cell prints: the names of the results of the document it read
Listing(c, resp) ==
    [cell |-> c, id |-> resp.id, state |-> resp.state, names |-> results_of(resp)]

RECURSIVE SeqsUpTo(_, _)
SeqsUpTo(S, n) ==
    IF n = 0 THEN {<<>>}
    ELSE LET shorter == SeqsUpTo(S, n - 1)
         IN shorter \cup {Append(s, x) : s \in {t \in shorter : Len(t) = n - 1}, x \in S}

VARIABLES
    notebook,      \* the notebook that is run: "requests", "sdk" or "analytics"
    cell,          \* the notebook cell that runs next ("halted": a cell raised)
    error,         \* the exception that stopped the run
    order_params,  \* the order packet the name order_params is bound to
    order_url,     \* the global order_url (<<>>: not yet assigned)
    basemaps,      \* what the name basemaps is bound to
    quad_ids,      \* the list quad_ids
    shown,         \* the results listings printed so far
    lookups,       \* the requests sent to the basemap service and their answers
    listed,        \* what the listing cells of the analytics notebook printed
    svc,           \* the ordering service: state of each order ("none": not created)
    posts,         \* the submit requests the service was sent, in order
    num_loops,     \* the loop bound the caller wants (docstring; 0: unset)
    pc,            \* position inside poll_for_success ("idle": not in a call)
    url,           \* poll_for_success: parameter order_url
    state,         \* poll_for_success: local state
    r,             \* poll_for_success: local r
    queries,       \* status queries issued by the current call
    observed,      \* order documents the current call has read
    printed,       \* lines print(state) has written in the current call
    sleeps,        \* seconds the current call has slept
    failed_at,     \* number of the first query of the call that failed (0: none)
    inflight,      \* requests sent to the ordering service and not yet answered
    asked,         \* the requests the current call has sent, in order
    returns,       \* what the finished calls of poll_for_success returned, in order
    calls,         \* poll_for_success calls started
    returned,      \* value the last finished call returned
    sdk_pc,        \* position inside create_and_deliver_order ("idle": not in a call)
    order,         \* create_and_deliver_order: id of the local order ("": unbound)
    reporter       \* create_and_deliver_order: what the StateBar shows

vars == <<cell, error, order_params, order_url, basemaps, quad_ids, shown, lookups, listed,
          svc, posts,
          num_loops, pc, url, state, r, queries, observed, printed, sleeps, failed_at,
          inflight, asked, returns, calls, returned, notebook, sdk_pc, order, reporter>>

sdkvars == <<notebook, sdk_pc, order, reporter>>
nbvars == <<order_params, order_url, basemaps, quad_ids, shown, lookups, listed, posts>>
pollvars == <<url, state, r, queries, observed, printed, sleeps, failed_at, inflight,
              asked, calls, returned, returns>>

\* order_params of cell 3: the geometry order
GeometryParams ==
    [name |-> "basemap order with geometry",
     products |-> <<[mosaic_name |-> "global_monthly_2022_01_mosaic",
                     geometry |-> "Polygon", quad_ids |-> <<>>]>>,
     tools |-> <<"merge", "clip">>,
     delivery |-> "google_cloud_storage"]

\* variant of cell 13: one product descriptor for each quad id
QuadParamsPerQuad(ids) ==
    [name |-> "basemap order with quad_ids",
     products |-> [i \in 1..Len(ids) |->
                     [mosaic_name |-> "ps_biweekly_sen2_normalized_analytic_subscription",
                      geometry |-> "", quad_ids |-> <<ids[i]>>]],
     tools |-> <<"reproject", "bandmath">>,
     delivery |-> "google_cloud_storage"]

\* order_params of cell 13: the quad-id order built from quad_ids
QuadParams(ids) ==
    [name |-> "basemap order with quad_ids",
     products |-> <<[mosaic_name |-> "ps_biweekly_sen2_normalized_analytic_subscription",
                     geometry |-> "", quad_ids |-> ids]>>,
     tools |-> <<"reproject", "bandmath">>,
     delivery |-> "google_cloud_storage"]

\* a JSON array of strings, as the tokens of its text
json_list(xs) == <<"[">> \o xs \o <<"]">>

\* the JSON objects of the products list, one after the other
RECURSIVE json_products(_)
json_products(ps) ==
    IF ps = <<>> THEN <<>>
    ELSE <<"{", "mosaic_name", Head(ps).mosaic_name, "geometry", Head(ps).geometry,
           "quad_ids">> \o json_list(Head(ps).quad_ids) \o <<"}">>
         \o json_products(Tail(ps))

\* json=order_params: the dictionary written out as JSON text, keys and list
\* elements in the order the dictionary holds them
json_dumps(p) ==
    <<"{", "name", p.name, "products", "[">> \o json_products(p.products)
    \o <<"]", "tools">> \o json_list(p.tools) \o <<"delivery", p.delivery, "}">>

\* the strings of a JSON array read from position i up to its closing bracket
RECURSIVE json_strings(_, _)
json_strings(t, i) ==
    IF i > Len(t) \/ t[i] = "]" THEN [items |-> <<>>, next |-> i + 1]
    ELSE LET rest == json_strings(t, i + 1)
         IN  [items |-> <<t[i]>> \o rest.items, next |-> rest.next]

\* the product objects read from position i up to the closing bracket of the list
RECURSIVE json_objects(_, _)
json_objects(t, i) ==
    IF i + 7 > Len(t) \/ t[i] # "{" THEN [items |-> <<>>, next |-> i + 1]
    ELSE LET ids == json_strings(t, i + 7)
             rest == json_objects(t, ids.next + 1)
         IN  [items |-> <<[mosaic_name |-> t[i + 2], geometry |-> t[i + 4],
                           quad_ids |-> ids.items]>> \o rest.items,
              next |-> rest.next]

\* the order the service reads back from the JSON text of a request body
json_loads(t) ==
    IF Len(t) < 5 \/ t[1] # "{" \/ t[Len(t)] # "}" THEN [invalid |-> TRUE]
    ELSE LET ps == json_objects(t, 6)
             ts == json_strings(t, ps.next + 2)
         IN  [name |-> t[3], products |-> ps.items, tools |-> ts.items,
              delivery |-> t[ts.next + 1]]

\* planet.reporting.StateBar: the state and the order id it displays
Bar(st, id) == [state |-> st, order_id |-> id]

\* the first code cell of a notebook
FirstCell(nb) ==
    CASE nb = "requests" -> "place_order"
      [] nb = "sdk"      -> "deliver_geometry"
      [] OTHER           -> "feeds"

\* what the name basemaps holds: nothing yet, the document of a mosaic search
\* (its 'mosaics' list), or the document of the quad-id order
Unbound == [kind |-> "unset", mosaics |-> <<>>]
Mosaics(ms) == [kind |-> "mosaics", mosaics |-> ms]
OrderDoc == [kind |-> "order", mosaics |-> <<>>]

\* one request to the basemap service: what was asked, whether it was answered
\* with a usable document, the mosaic asked about and the list that came back
Lookup(what, ok, mosaic, got) == [what |-> what, ok |-> ok, mosaic |-> mosaic, got |-> got]

\* an item of the quads document
Quad(id, mosaic) == [id |-> id, mosaic |-> mosaic]

\* variant of the comprehension: the ids go through a set and lose their repeats
RECURSIVE ids_of_unique(_)
ids_of_unique(items) ==
    IF items = <<>> THEN <<>>
    ELSE LET rest == ids_of_unique(Tail(items))
         IN  IF \E i \in 1..Len(rest) : rest[i] = Head(items).id
             THEN rest ELSE <<Head(items).id>> \o rest

\* quad_ids = [i['id'] for i in items]
ids_of(items) == [i \in 1..Len(items) |-> items[i].id]

\* variant of the test: the hint is printed only past the limit
more_available_past(count, limit) == count > limit

\* if feed_count >= limit: print('More ... are probably available ...')
more_available(count, limit) == count >= limit

\* what a listing cell prints: the count, and the hint when the test says so
Hint(c, count) == [cell |-> c, count |-> count, hint |-> more_available(count, Limit)]

Init ==
    /\ notebook \in {"requests", "sdk", "analytics"}
    /\ cell = FirstCell(notebook)
    /\ sdk_pc = "idle"
    /\ order = ""
    /\ reporter = Bar("", "")
    /\ error = NoExc
    /\ order_params = GeometryParams
    /\ order_url = <<>>
    /\ basemaps = Unbound
    /\ quad_ids = <<>>
    /\ shown = <<>>
    /\ lookups = <<>>
    /\ listed = <<>>
    /\ svc = [i \in {"o1", "o2"} |-> "none"]
    /\ posts = <<>>
    /\ num_loops \in 0..MaxLoops
    /\ pc = "idle"
    /\ url = <<>>
    /\ state = ""
    /\ r = NoResp
    /\ queries = 0
    /\ observed = <<>>
    /\ printed = <<>>
    /\ sleeps = 0
    /\ failed_at = 0
    /\ inflight = 0
    /\ asked = <<>>
    /\ returns = <<>>
    /\ calls = 0
    /\ returned = NoResp

(* ------------------------------------------------------ the ordering service *)
\* states the service never leaves
ServiceFinal == {"success", "failed", "partial"}

\* the order a URL names
OrderOf(u) == u[2]

\* the identifier the service gives the next order it accepts
NewId == IF svc[OrderIds[1]] = "none" THEN OrderIds[1] ELSE OrderIds[2]

\* the service moves an order to another state; the notebook plays no part
ServiceAdvance ==
    /\ \E id \in {"o1", "o2"} :
         /\ svc[id] \notin ServiceFinal \cup {"none"}
         /\ \E s \in ServiceStates \ {svc[id]} : svc' = [svc EXCEPT ![id] = s]
    /\ UNCHANGED <<cell, error, num_loops, pc>>
    /\ UNCHANGED nbvars
    /\ UNCHANGED pollvars
    /\ UNCHANGED sdkvars

(* ------------------------------------------------------------ the notebook *)
\* variant of the cell order: the results cell is followed by the submission again
NextCellResubmit(c) ==
    CASE c = "place_order"    -> "poll"
      [] c = "poll"           -> "results"
      [] c = "results"        -> "place_order"
      [] OTHER                -> c

\* the code cells in the order the notebook runs them
NextCell(c) ==
    CASE c = "place_order"    -> "poll"
      [] c = "poll"           -> "results"
      [] c = "results"        -> "mosaic_search"
      [] c = "mosaic_search"  -> "quad_lookup"
      [] c = "quad_lookup"    -> "order_params"
      [] c = "order_params"   -> "post_quad_order"
      [] c = "post_quad_order" -> "final_results"
      [] c = "final_results"  -> "end"
      [] c = "deliver_geometry"   -> "sdk_mosaic_search"
      [] c = "sdk_mosaic_search"  -> "sdk_quad_lookup"
      [] c = "sdk_quad_lookup"    -> "sdk_order_params"
      [] c = "sdk_order_params"   -> "deliver_quads"
      [] c = "deliver_quads"      -> "end"
      [] c = "feeds"              -> "subscriptions"
      [] c = "subscriptions"      -> "end"
      [] OTHER                -> c

\* variant of the run: the exception is caught and the cell is run again
HaltRetry(kind, resp) == UNCHANGED <<error, cell>>

\* variant of the run: the error is shown and the run goes on with the next cell
HaltContinue(kind, resp) ==
    /\ error' = Exc(kind, resp, cell)
    /\ cell' = NextCell(cell)

\* an exception leaves the running cell: the run stops
Halt(kind, resp) ==
    /\ error' = Exc(kind, resp, cell)
    /\ cell' = "halted"

(* -------------------------------------------------------- poll_for_success *)
\* variant of the loop condition: the loop gives up after two queries
while_cond_bounded(s) == s \notin end_states /\ queries < 2

\* while state not in end_states
while_cond(s) == s \notin end_states

\* variant of print(state): a state is printed only when it changes
print_state_on_change(out, s) ==
    IF out # <<>> /\ out[Len(out)] = s THEN out ELSE Append(out, s)

\* variant of print(state): the state is printed on reading and again on leaving
print_state_twice(out, s) == Append(Append(out, s), s)

\* print(state)
print_state(out, s) == Append(out, s)

\* variant of return r: the first document read is returned
poll_return_first == IF observed # <<>> THEN observed[1] ELSE r

\* return r
poll_return == r

\* variant of the loop body: the exception is caught and the loop goes on
PollSwallow(kind, resp) ==
    /\ pc' = "sleep"
    /\ UNCHANGED <<cell, error>>

\* an exception raised inside the loop is not caught: it leaves the call
PollRaise(kind, resp) ==
    /\ pc' = "idle"
    /\ Halt(kind, resp)

\* poll_for_success(order_url): the call and the first two statements
PollCall ==
    /\ pc = "idle"
    /\ cell \in {"poll", "results"}
    /\ pc' = "while"
    /\ url' = order_url
    /\ state' = ""
    /\ r' = NoResp
    /\ queries' = 0
    /\ observed' = <<>>
    /\ printed' = <<>>
    /\ sleeps' = 0
    /\ failed_at' = 0
    /\ asked' = <<>>
    /\ calls' = calls + 1
    /\ returned' = NoResp
    /\ UNCHANGED <<cell, error, svc, num_loops, inflight, returns>>
    /\ UNCHANGED nbvars
    /\ UNCHANGED sdkvars

\* while state not in end_states:
WhileTest ==
    /\ pc = "while"
    /\ pc' = IF while_cond(state) THEN "get" ELSE "return"
    /\ UNCHANGED <<cell, error, svc, num_loops>>
    /\ UNCHANGED nbvars
    /\ UNCHANGED pollvars
    /\ UNCHANGED sdkvars

\* variants of the request: a POST to the order, a GET of the orders collection
request_post(u) == [method |-> "POST", url |-> u]
request_get_base(u) == [method |-> "GET", url |-> <<ORDERS_API_URL>>]

\* session.get(order_url, ...): the request it sends
request_get(u) == [method |-> "GET", url |-> u]

\* variant of the call: the next request is sent while one is still unanswered
may_send_unanswered == pc \in {"get", "await"}

\* session.get blocks: the loop sends a request only when it reaches the statement
may_send == pc = "get"

\* r = session.get(order_url, auth=session.auth): the request leaves
GetSend ==
    /\ may_send
    /\ queries < MaxQueries
    /\ queries' = queries + 1
    /\ inflight' = inflight + 1
    /\ asked' = Append(asked, request_get(url))
    /\ pc' = "await"
    /\ UNCHANGED <<cell, error, svc, num_loops>>
    /\ UNCHANGED <<url, state, r, observed, printed, sleeps, failed_at, calls, returned,
                   returns>>
    /\ UNCHANGED nbvars
    /\ UNCHANGED sdkvars

\* r = session.get(order_url, auth=session.auth): the call comes back
GetRecv ==
    /\ pc = "await"
    /\ inflight' = inflight - 1
    /\ \/ \* the request fails in the network: requests raises
          /\ failed_at' = IF failed_at = 0 THEN queries ELSE failed_at
          /\ r' = r
          /\ PollRaise("ConnectionError", NoResp)
       \/ \* the service answers with an error
          /\ \E e \in ErrorResponses : r' = e
          /\ failed_at' = IF failed_at = 0 THEN queries ELSE failed_at
          /\ pc' = "observe"
          /\ UNCHANGED <<cell, error>>
       \/ \* the service answers with the order document
          /\ queries < MaxQueries \/ svc[OrderOf(url)] \in ServiceFinal
          /\ r' = Resp(200, "order", OrderOf(url), svc[OrderOf(url)], queries)
          /\ pc' = "observe"
          /\ UNCHANGED <<cell, error, failed_at>>
    /\ UNCHANGED <<svc, num_loops, url, state, queries, observed, printed, sleeps, asked,
                   calls, returned, returns>>
    /\ UNCHANGED nbvars
    /\ UNCHANGED sdkvars

\* variant of the loop's tail: the sleep comes before the test of the state
after_observe_sleep_first(s) == "sleep"

\* if state in end_states: break, else time.sleep(10)
after_observe(s) == IF s \in end_states THEN "return" ELSE "sleep"

\* response = r.json(); state = response['state']; print(state);
\* if state in end_states: break
Observe ==
    /\ pc = "observe"
    /\ IF json_key_error(r) # "none"
       THEN /\ PollRaise(json_key_error(r), json_key_carries(r))
            /\ UNCHANGED <<state, observed, printed>>
       ELSE /\ state' = r.state
            /\ observed' = Append(observed, r)
            /\ printed' = print_state(printed, r.state)
            /\ pc' = after_observe(r.state)
            /\ UNCHANGED <<cell, error>>
    /\ UNCHANGED <<svc, num_loops, url, r, queries, sleeps, failed_at, inflight, asked,
                   calls, returned, returns>>
    /\ UNCHANGED nbvars
    /\ UNCHANGED sdkvars

\* time.sleep(10)
Sleep ==
    /\ pc = "sleep"
    /\ sleeps' = sleeps + PollInterval
    /\ pc' = "while"
    /\ UNCHANGED <<cell, error, svc, num_loops>>
    /\ UNCHANGED <<url, state, r, queries, observed, printed, failed_at, inflight, asked,
                   calls, returned, returns>>
    /\ UNCHANGED nbvars
    /\ UNCHANGED sdkvars

\* return r; the results cell then prints the names of response['_links']['results']
Return ==
    /\ pc = "return"
    /\ pc' = "idle"
    /\ returned' = poll_return
    /\ returns' = Append(returns, poll_return)
    /\ shown' = IF cell = "results" THEN Append(shown, Listing(cell, poll_return)) ELSE shown
    /\ cell' = NextCell(cell)
    /\ UNCHANGED <<error, svc, num_loops>>
    /\ UNCHANGED <<order_params, order_url, basemaps, quad_ids, lookups, listed, posts>>
    /\ UNCHANGED <<url, state, r, queries, observed, printed, sleeps, failed_at, inflight,
                   asked, calls>>
    /\ UNCHANGED sdkvars

PollNext == PollCall \/ WhileTest \/ GetSend \/ GetRecv \/ Observe \/ Sleep \/ Return

(* ------------------------------------------------------ the notebook's cells *)
\* status_code < 400
status_ok(code) == code < BadStatus

\* place_order: order_id = response.json()['id'], the status is not looked at
place_order_error(resp) == json_key_error(resp)
place_order_carries(resp) == json_key_carries(resp)

\* if status_code < 400: x = response.json()  else: response.raise_for_status()
checked_json_error(resp) ==
    IF status_ok(resp.status_code)
    THEN (IF resp.body = "not_json" THEN "JSONDecodeError" ELSE "none")
    ELSE "HTTPError"

\* the exception raise_for_status() raises carries the response
checked_json_carries(resp) == IF status_ok(resp.status_code) THEN NoResp ELSE resp

\* variant of the submission: the credentials are taken out of the dictionary sent
params_after_post_pop(p) == [p EXCEPT !.delivery = ""]

\* session.post(..., json=order_params) reads the dictionary and leaves it as it was
params_after_post(p) == p

\* variant of the submission: data=order_params, a form encoding of the top-level keys
post_body_form(p) == <<"name", p.name, "products", "mosaic_name", "tools", "delivery">>

\* session.post(..., json=order_params): the body that goes to the service
post_body(p) == json_dumps(p)

\* one submission as the service received it and answered it
Post(p, resp) == [spec |-> p, body |-> post_body(p), response |-> resp]

\* order_url = place_order(order_params, session.auth)
PlaceOrder ==
    /\ cell = "place_order"
    /\ pc = "idle"
    /\ \/ \* the service refuses the order
          \E e \in ErrorResponses :
            /\ posts' = Append(posts, Post(order_params, e))
            /\ IF place_order_error(e) # "none"
               THEN /\ Halt(place_order_error(e), place_order_carries(e))
                    /\ UNCHANGED order_url
               ELSE /\ order_url' = <<ORDERS_API_URL, e.id>>
                    /\ cell' = NextCell(cell)
                    /\ UNCHANGED error
            /\ UNCHANGED svc
       \/ \* the request fails in the network
          /\ posts' = Append(posts, Post(order_params, NoResp))
          /\ Halt("ConnectionError", NoResp)
          /\ UNCHANGED <<svc, order_url>>
       \/ \* the service accepts the order and creates it
          LET a == Resp(202, "order", NewId, "queued", 0) IN
            /\ posts' = Append(posts, Post(order_params, a))
            /\ svc' = [svc EXCEPT ![NewId] = "queued"]
            /\ order_url' = <<ORDERS_API_URL, a.id>>
            /\ cell' = NextCell(cell)
            /\ UNCHANGED error
    /\ order_params' = params_after_post(order_params)
    /\ UNCHANGED <<basemaps, quad_ids, shown, lookups, listed, num_loops, pc>>
    /\ UNCHANGED pollvars
    /\ UNCHANGED sdkvars

\* the mosaic search cell
MosaicSearch ==
    /\ cell \in {"mosaic_search", "sdk_mosaic_search"}
    /\ pc = "idle"
    /\ \/ /\ Halt("ConnectionError", NoResp)
          /\ lookups' = Append(lookups, Lookup("mosaics", FALSE, "", <<>>))
          /\ UNCHANGED basemaps
       \/ \E e \in ErrorResponses :
            /\ Halt(checked_json_error(e), checked_json_carries(e))
            /\ lookups' = Append(lookups, Lookup("mosaics", FALSE, "", <<>>))
            /\ UNCHANGED basemaps
       \/ \E found \in MosaicLists :
            /\ basemaps' = Mosaics(found)
            /\ lookups' = Append(lookups, Lookup("mosaics", TRUE, "", found))
            /\ cell' = NextCell(cell)
            /\ UNCHANGED error
    /\ UNCHANGED <<order_params, order_url, quad_ids, shown, listed, posts, svc, num_loops, pc>>
    /\ UNCHANGED pollvars
    /\ UNCHANGED sdkvars

\* the quad lookup cell: basemaps['mosaics'][0], then the quads of that mosaic
QuadLookup ==
    /\ cell \in {"quad_lookup", "sdk_quad_lookup"}
    /\ pc = "idle"
    /\ IF basemaps.mosaics = <<>>
       THEN /\ Halt("IndexError", NoResp)
            /\ UNCHANGED <<quad_ids, lookups>>
       ELSE LET mosaic_id == basemaps.mosaics[1] IN
            \/ /\ Halt("ConnectionError", NoResp)
               /\ lookups' = Append(lookups, Lookup("quads", FALSE, mosaic_id, <<>>))
               /\ UNCHANGED quad_ids
            \/ \E e \in ErrorResponses :
                 /\ Halt(json_key_error(e), json_key_carries(e))
                 /\ lookups' = Append(lookups, Lookup("quads", FALSE, mosaic_id, <<>>))
                 /\ UNCHANGED quad_ids
            \/ \E ids \in SeqsUpTo(QuadIds, MaxQuads) :
                 LET items == [i \in 1..Len(ids) |-> Quad(ids[i], mosaic_id)] IN
                 /\ quad_ids' = ids_of(items)
                 /\ lookups' = Append(lookups, Lookup("quads", TRUE, mosaic_id, items))
                 /\ cell' = NextCell(cell)
                 /\ UNCHANGED error
    /\ UNCHANGED <<order_params, order_url, basemaps, shown, listed, posts, svc, num_loops, pc>>
    /\ UNCHANGED pollvars
    /\ UNCHANGED sdkvars

\* order_params = {... "quad_ids": quad_ids ...}
BuildOrderParams ==
    /\ cell \in {"order_params", "sdk_order_params"}
    /\ pc = "idle"
    /\ order_params' = QuadParams(quad_ids)
    /\ cell' = NextCell(cell)
    /\ UNCHANGED <<error, order_url, basemaps, quad_ids, shown, lookups, listed, posts, svc,
                   num_loops, pc>>
    /\ UNCHANGED pollvars
    /\ UNCHANGED sdkvars

\* param_res = session.post(...); the status is checked; order_url is not assigned
PostQuadOrder ==
    /\ cell = "post_quad_order"
    /\ pc = "idle"
    /\ \/ /\ posts' = Append(posts, Post(order_params, NoResp))
          /\ Halt("ConnectionError", NoResp)
          /\ UNCHANGED <<svc, basemaps>>
       \/ \E e \in ErrorResponses :
            /\ posts' = Append(posts, Post(order_params, e))
            /\ Halt(checked_json_error(e), checked_json_carries(e))
            /\ UNCHANGED <<svc, basemaps>>
       \/ LET a == Resp(202, "order", NewId, "queued", 0) IN
            /\ posts' = Append(posts, Post(order_params, a))
            /\ svc' = [svc EXCEPT ![NewId] = "queued"]
            /\ basemaps' = OrderDoc
            /\ cell' = NextCell(cell)
            /\ UNCHANGED error
    /\ order_params' = params_after_post(order_params)
    /\ UNCHANGED <<order_url, quad_ids, shown, lookups, listed, num_loops, pc>>
    /\ UNCHANGED pollvars
    /\ UNCHANGED sdkvars

\* r = requests.get(order_url, ...); the names of response['_links']['results']
FinalResults ==
    /\ cell = "final_results"
    /\ pc = "idle"
    /\ \/ /\ Halt("ConnectionError", NoResp)
          /\ UNCHANGED shown
       \/ \E e \in ErrorResponses :
            /\ Halt(json_key_error(e), json_key_carries(e))
            /\ UNCHANGED shown
       \/ LET d == Resp(200, "order", OrderOf(order_url), svc[OrderOf(order_url)], 1) IN
            /\ shown' = Append(shown, Listing(cell, d))
            /\ cell' = NextCell(cell)
            /\ UNCHANGED error
    /\ UNCHANGED <<order_params, order_url, basemaps, quad_ids, lookups, listed, posts, svc,
                   num_loops, pc>>
    /\ UNCHANGED pollvars
    /\ UNCHANGED sdkvars

(* ------------------------------------------------ the analytics listings *)
\* the feeds cell and the subscriptions cell:
\* resp = requests.get(...?limit={limit}); records = resp.json()['data'];
\* the count is printed, and the hint when the count reaches the limit
ListRecords ==
    /\ cell \in {"feeds", "subscriptions"}
    /\ pc = "idle"
    /\ \/ /\ Halt("ConnectionError", NoResp)
          /\ UNCHANGED listed
       \/ \E e \in ErrorResponses :
            /\ Halt(json_key_error(e), json_key_carries(e))
            /\ UNCHANGED listed
       \/ \E count \in Counts :
            /\ listed' = Append(listed, Hint(cell, count))
            /\ cell' = NextCell(cell)
            /\ UNCHANGED error
    /\ UNCHANGED <<order_params, order_url, basemaps, quad_ids, shown, lookups, posts, svc,
                   num_loops, pc>>
    /\ UNCHANGED pollvars
    /\ UNCHANGED sdkvars

(* ------------------------------------------------ create_and_deliver_order *)
\* variant of the body: reporter.update(state='created', ...) stands first
sdk_first_step_update == "update"

\* the first statement inside the with block: order = await client.create_order(...)
sdk_first_step == "create"

\* await create_and_deliver_order(order_params, client);
\* with planet.reporting.StateBar(state='creating') as reporter:
SdkCall ==
    /\ cell \in {"deliver_geometry", "deliver_quads"}
    /\ sdk_pc = "idle"
    /\ sdk_pc' = sdk_first_step
    /\ order' = ""
    /\ reporter' = Bar("creating", "")
    /\ UNCHANGED <<notebook, cell, error, svc, num_loops, pc>>
    /\ UNCHANGED nbvars
    /\ UNCHANGED pollvars

\* order = await client.create_order(order_params)
SdkCreateOrder ==
    /\ sdk_pc = "create"
    /\ \/ \* the service refuses the order, or the request fails: the client raises
          \E e \in ErrorResponses \cup {NoResp} :
            /\ posts' = Append(posts, Post(order_params, e))
            /\ Halt("planet.exceptions", e)
            /\ sdk_pc' = "idle"
            /\ UNCHANGED <<svc, order>>
       \/ \* the service accepts the order and creates it
          LET a == Resp(202, "order", NewId, "queued", 0) IN
            /\ posts' = Append(posts, Post(order_params, a))
            /\ svc' = [svc EXCEPT ![NewId] = "queued"]
            /\ order' = a.id
            /\ sdk_pc' = "update"
            /\ UNCHANGED <<cell, error>>
    /\ UNCHANGED <<notebook, reporter, num_loops, pc>>
    /\ order_params' = params_after_post(order_params)
    /\ UNCHANGED <<order_url, basemaps, quad_ids, shown, lookups, listed>>
    /\ UNCHANGED pollvars

\* reporter.update(state='created', order_id=order['id'])
SdkReporterUpdate ==
    /\ sdk_pc = "update"
    /\ reporter' = Bar("created", order)
    /\ sdk_pc' = "wait"
    /\ UNCHANGED <<notebook, cell, error, order, svc, num_loops, pc>>
    /\ UNCHANGED nbvars
    /\ UNCHANGED pollvars

\* await client.wait(order['id'], callback=reporter.update_state, max_attempts=0):
\* one status check of the client, reported through the callback
SdkWait ==
    /\ sdk_pc = "wait"
    /\ \/ /\ reporter' = [reporter EXCEPT !.state = svc[order]]
          /\ IF svc[order] \in ServiceFinal
             THEN sdk_pc' = "idle" /\ cell' = NextCell(cell)
             ELSE UNCHANGED <<sdk_pc, cell>>
          /\ UNCHANGED error
       \/ \* a status check fails: the client raises
          /\ Halt("planet.exceptions", NoResp)
          /\ sdk_pc' = "idle"
          /\ UNCHANGED reporter
    /\ UNCHANGED <<notebook, order, svc, num_loops, pc>>
    /\ UNCHANGED nbvars
    /\ UNCHANGED pollvars

SdkNext == SdkCall \/ SdkCreateOrder \/ SdkReporterUpdate \/ SdkWait

Next ==
    \/ PlaceOrder
    \/ PollCall
    \/ WhileTest
    \/ GetSend
    \/ GetRecv
    \/ Observe
    \/ Sleep
    \/ Return
    \/ MosaicSearch
    \/ QuadLookup
    \/ BuildOrderParams
    \/ PostQuadOrder
    \/ FinalResults
    \/ SdkCall
    \/ SdkCreateOrder
    \/ SdkReporterUpdate
    \/ SdkWait
    \/ ListRecords
    \/ ServiceAdvance

Spec == Init /\ [][Next]_vars

\* the interpreter keeps running the statements of a call it has started
FairSpec == Spec /\ WF_vars(PollNext)

(* ------------------------------------------------------------ properties *)
\* the terminal and the non-terminal order states of the specification
Terminal == {"success", "failed", "partial"}
NonTerminal == {"queued", "running"}

StatesOf(docs) == [i \in 1..Len(docs) |-> docs[i].state]
AllPending(docs, n) == \A i \in 1..n : docs[i].state \notin Terminal
SubmitCells == {"place_order", "post_quad_order"}
PollCells == {"poll", "results"}

\* C1: whenever poll_for_success returns, the state in the returned response is
\* success, failed or partial, never queued or running.
C1_ReturnsOnlyTerminal ==
    returned # NoResp => returned.state \in Terminal

C1_Witness ==
    /\ returned # NoResp
    /\ returned.state = "failed"
    /\ Len(observed) >= 3

\* C2: when the service answers k-1 non-terminal states and then a terminal one,
\* the call issues exactly k status queries and returns the k-th response, with
\* the state and the results listing that response carries.
C2_ReturnsKthResponse ==
    returned # NoResp =>
        LET k == Len(observed) IN
        /\ k >= 1
        /\ queries = k
        /\ AllPending(observed, k - 1)
        /\ observed[k].state \in Terminal
        /\ returned = observed[k]
        /\ returned.serial = k
        /\ results_of(returned) = results_of(observed[k])

C2_Witness ==
    /\ returned # NoResp
    /\ printed = <<"queued", "running", "running", "success">>
    /\ queries = 4
    /\ returned.serial = 4
    /\ returned.state = "success"

\* C3: one progress line is printed per status query, in the order the states
\* were observed, repeated states included: after n queries the printed states
\* are the n observed states.
C3_OneNotificationPerQuery ==
    /\ printed = StatesOf(observed)
    /\ failed_at = 0 =>
          Len(printed) = (IF pc \in {"await", "observe"} THEN queries - 1 ELSE queries)

C3_Witness ==
    /\ Len(printed) >= 3
    /\ \A i \in 1..Len(printed) : printed[i] = "running"
    /\ queries = Len(printed)

\* C4: a status query that fails (a network error, or an answer that carries no
\* order state) ends the call with the exception at once: no further query is
\* issued, nothing is retried and no response is returned.
C4_FailurePropagatesAtOnce ==
    failed_at > 0 =>
        /\ queries = failed_at
        /\ returned = NoResp
        /\ \/ pc = "observe" /\ r \in ErrorResponses
           \/ /\ pc = "idle"
              /\ cell = "halted"
              /\ error.cell \in PollCells
              /\ error.kind \in {"ConnectionError", "KeyError", "JSONDecodeError"}

C4_Witness ==
    /\ failed_at = 2
    /\ queries = 2
    /\ cell = "halted"
    /\ Len(observed) = 1

\* C5: with a positive loop bound n and a service that never reports a terminal
\* state, the call raises PollTimeout after exactly n status queries.
C5_TimeoutAfterMaxAttempts ==
    (num_loops > 0 /\ Len(observed) >= num_loops /\ AllPending(observed, num_loops)) =>
        /\ queries = num_loops
        /\ pc = "idle"
        /\ error.kind = "PollTimeout"

\* C6: with no loop bound the call retries indefinitely: after every
\* non-terminal observation it sleeps and goes on to the next status query, and
\* it never gives up.
C6_Step ==
    /\ (num_loops = 0 /\ pc = "observe" /\ r.body = "order" /\ r.state \notin Terminal)
          => (pc' \in {"observe", "sleep"} /\ error' = error)
    /\ (num_loops = 0 /\ pc = "sleep") => (pc' \in {"sleep", "while"} /\ error' = error)
    /\ (num_loops = 0 /\ pc = "while" /\ state \notin Terminal)
          => (pc' \in {"while", "get"} /\ error' = error)

C7_SubmitTwoOutcomes ==
    notebook = "requests" => \A i \in 1..Len(posts) :
        LET p == posts[i].response IN
        IF p # NoResp /\ status_ok(p.status_code)
        THEN p.id # "" /\ error.cell \notin SubmitCells
        ELSE /\ error.cell \in SubmitCells
             /\ error.kind = "HTTPError"
             /\ p # NoResp

\* C8: an order is never submitted twice: no two submit requests carry the
\* same order packet.
C8_NoDoubleSubmit ==
    \A i, j \in 1..Len(posts) : i # j => posts[i].spec # posts[j].spec

C8_Witness ==
    /\ Len(posts) = 2
    /\ calls = 2
    /\ cell = "end"

\* C9: when the service answers a submission with a non-success status, the
\* error raised carries the raw body of that response.
C9_ErrorCarriesBody ==
    notebook = "requests" => \A i \in 1..Len(posts) :
        LET p == posts[i].response IN
        (p # NoResp /\ ~status_ok(p.status_code)) =>
            /\ error.cell \in SubmitCells
            /\ error.response = p

\* C10: once the service reports a terminal state for the order being polled,
\* the call ends: it returns that terminal state unless a query fails.
C10_EventuallyReturns ==
    (pc # "idle" /\ svc[OrderOf(url)] \in Terminal)
        ~> (pc = "idle" /\ (failed_at = 0 => (returned # NoResp /\ returned.state \in Terminal)))

C10_Witness ==
    /\ pc = "idle"
    /\ failed_at = 0
    /\ returned # NoResp
    /\ returned.state = "partial"
    /\ sleeps >= 20

\* C11: at most one request to the ordering service is outstanding at any time;
\* a status query is sent only when every earlier query of the call has been
\* answered and read and one sleep has passed for each of them; a handle is
\* polled by one task only, the polling cell of the notebook that is running.
C11_OneRequestAtATime ==
    /\ inflight <= 1
    /\ inflight = 1 <=> pc = "await"
    /\ pc = "await" =>
          /\ Len(asked) = queries
          /\ Len(observed) = queries - 1
          /\ sleeps = PollInterval * (queries - 1)
    /\ ~(pc # "idle" /\ sdk_pc # "idle")
    /\ pc # "idle" => (notebook = "requests" /\ cell \in PollCells)
    /\ sdk_pc # "idle" => (notebook = "sdk" /\ inflight = 0)

C11_Witness ==
    /\ pc = "await"
    /\ inflight = 1
    /\ queries = 3
    /\ sleeps = 20

\* C12: a submission and every step of a polling call leave the dictionary of
\* order parameters as it was, and what a submission sent is that dictionary.
C12_Step ==
    /\ (posts' # posts \/ pc # "idle" \/ pc' # "idle" \/ sdk_pc # "idle" \/ sdk_pc' # "idle")
          => order_params' = order_params
    /\ posts' # posts =>
          /\ Len(posts') = Len(posts) + 1
          /\ posts'[Len(posts')].spec = order_params'
          /\ \A i \in 1..Len(posts) : posts'[i] = posts[i]

C12_SpecNotMutated == [][C12_Step]_vars

C12_Witness ==
    /\ Len(posts) = 2
    /\ posts[1].spec = GeometryParams
    /\ posts[2].spec = order_params
    /\ order_params.products[1].quad_ids # <<>>
    /\ calls = 2

C14_SleepsBetweenQueries ==
    /\ pc \in {"while", "get"} => sleeps = 10 * queries
    /\ pc \in {"await", "observe", "sleep", "return"} => sleeps = 10 * (queries - 1)
    /\ pc = "sleep" => state \notin Terminal
    /\ pc = "return" => state \in Terminal
    /\ returned # NoResp =>
          /\ Len(observed) = queries
          /\ sleeps = 10 * (queries - 1)

C14_Witness ==
    /\ returned # NoResp
    /\ queries = 3
    /\ sleeps = 20

\* C15: the call stops at the first success, failed or partial it reads and goes
\* on after every queued or running it reads.
C15_Classification ==
    Len(observed) > 0 =>
        LET last == observed[Len(observed)].state IN
        /\ \A i \in 1..(Len(observed) - 1) : observed[i].state \notin Terminal
        /\ last \in Terminal =>
              /\ pc \in {"return", "idle"}
              /\ pc = "idle" => returned = observed[Len(observed)]
        /\ last \in NonTerminal =>
              /\ returned = NoResp
              /\ pc \in {"sleep", "while", "get", "await", "observe", "idle"}
              /\ pc = "idle" => (cell = "halted" /\ failed_at > 0)

C15_Witness ==
    /\ pc = "return"
    /\ Len(observed) = 3
    /\ observed[1].state = "queued"
    /\ observed[2].state = "running"
    /\ observed[3].state = "failed"

\* C16: every results listing the requests notebook shows for an order is read
\* from a document of that order, at the handle its own submission returned, and
\* the document's state is terminal: the listing of the results cell belongs to
\* the geometry order, the listing of the final cell to the quad-id order.
C16_ResultsOfOwnOrder ==
    notebook = "requests" => \A i \in 1..Len(shown) :
        LET own == IF shown[i].cell = "results" THEN 1 ELSE 2 IN
        /\ shown[i].state \in Terminal
        /\ Len(posts) >= own
        /\ shown[i].id = posts[own].response.id

\* C17: nothing is tried again. A submission that failed is the last one, the run
\* has stopped at it and no status query was sent for it; a status query that
\* failed is the last query of its call.
C17_NoRetry ==
    /\ \A i \in 1..Len(posts) : posts[i].response.body # "order" =>
          /\ i = Len(posts)
          /\ cell = "halted"
          /\ error.cell \in SubmitCells \cup {"deliver_geometry", "deliver_quads"}
          /\ pc = "idle" /\ sdk_pc = "idle" /\ inflight = 0
          /\ i = 1 => (calls = 0 /\ asked = <<>>)
          /\ \A j \in 1..Len(asked) : asked[j].url = <<ORDERS_API_URL, posts[1].response.id>>
          /\ notebook = "sdk" => reporter = Bar("creating", "")
    /\ failed_at > 0 =>
          /\ queries = failed_at
          /\ Len(asked) = failed_at
          /\ pc \in {"observe", "idle"}
          /\ pc = "idle" => cell = "halted"

C17_Witness ==
    /\ Len(posts) = 2
    /\ posts[2].response.status_code = 400
    /\ cell = "halted"
    /\ calls = 2

\* C18: while a polling call runs, the requests it has sent are GETs of its handle
\* and nothing else, no order is submitted, and the state of an order changes
\* only in steps of the service, in which the call does nothing.
C18_Step ==
    pc # "idle" =>
        /\ posts' = posts
        /\ \A i \in 1..Len(asked') : asked'[i] = [method |-> "GET", url |-> url]
        /\ Len(asked') \in {Len(asked), Len(asked) + 1}
        /\ svc' # svc => UNCHANGED <<pc, queries, asked, inflight, r, state>>

C18_PollerOnlyObserves == [][C18_Step]_vars

C18_Witness ==
    /\ pc = "return"
    /\ Len(asked) = 3
    /\ state = "success"
    /\ Len(posts) = 1

\* C19: a call on a handle whose order the service has already reported terminal
\* sends one query, prints one state, does not sleep and returns the terminal
\* state and the results the earlier call returned.
C19_PollFinishedIdempotent ==
    /\ (calls = 2 /\ Len(returns) >= 1) =>
          /\ queries <= 1
          /\ Len(printed) <= 1
          /\ sleeps = 0
          /\ pc # "sleep"
    /\ Len(returns) = 2 =>
          /\ queries = 1
          /\ Len(asked) = 1
          /\ Len(printed) = 1
          /\ returns[1].state \in Terminal
          /\ returns[2].state = returns[1].state
          /\ returns[2].id = returns[1].id
          /\ results_of(returns[2]) = results_of(returns[1])

C19_Witness ==
    /\ Len(returns) = 2
    /\ returns[1].serial = 3
    /\ returns[2].serial = 1
    /\ returns[2].state = "partial"

\* C20: every status query of a call goes to the URL the call was given, which is
\* the URL place_order returned, ORDERS_API_URL + '/' + the id in the answer to
\* the submission; the call leaves that URL as it is.
C20_HandleFixedWhilePolling ==
    (notebook = "requests" /\ calls > 0) =>
        /\ \A i \in 1..Len(asked) : asked[i].url = url
        /\ url = order_url
        /\ posts[1].response.body = "order"
        /\ url = <<ORDERS_API_URL, posts[1].response.id>>

C20_Witness ==
    /\ Len(asked) = 3
    /\ pc = "await"
    /\ url = <<ORDERS_API_URL, "o1">>

\* C21: every order sent to the ordering service, as it was submitted and as its
\* body reads, has at least one product descriptor and a delivery descriptor
\* that is not empty; no order without them is sent.
C21_SentSpecsAreComplete ==
    \A i \in 1..Len(posts) :
        /\ Len(posts[i].spec.products) >= 1
        /\ posts[i].spec.delivery # ""
        /\ Len(json_loads(posts[i].body).products) >= 1
        /\ json_loads(posts[i].body).delivery # ""

C21_Witness ==
    /\ Len(posts) = 2
    /\ posts[2].spec.name = "basemap order with quad_ids"
    /\ Len(posts[2].spec.products) = 1
    /\ posts[2].spec.products[1].quad_ids = <<>>

\* C22: a state other than success, failed and partial, be it queued, running,
\* a value outside the enumeration such as cancelled, or the empty state the
\* call starts with, never ends the call: it is printed, the call sleeps and
\* goes to the next query.
C22_Step ==
    /\ (pc = "observe" /\ r.body = "order" /\ r.state \notin Terminal) =>
          \/ pc' = pc
          \/ /\ pc' = "sleep"
             /\ state' = r.state
             /\ printed' = Append(printed, r.state)
             /\ returned' = NoResp
             /\ cell' = cell
    /\ (pc = "sleep" /\ state \notin Terminal) =>
          (pc' \in {"sleep", "while"} /\ returned' = NoResp /\ cell' = cell)
    /\ (pc = "while" /\ state \notin Terminal) =>
          (pc' \in {"while", "get"} /\ returned' = NoResp /\ cell' = cell)

C23_SubmitBeforePoll ==
    /\ sdk_pc = "create" => reporter = Bar("creating", "")
    /\ sdk_pc \in {"update", "wait"} =>
          /\ Len(posts) >= 1
          /\ posts[Len(posts)].response.body = "order"
          /\ order = posts[Len(posts)].response.id
          /\ svc[order] # "none"
    /\ sdk_pc = "update" => reporter = Bar("creating", "")
    /\ sdk_pc = "wait" => reporter.order_id = order
    /\ reporter.state = "creating" => reporter.order_id = ""
    /\ reporter.state \notin {"", "creating"} =>
          /\ order # ""
          /\ reporter.order_id = order
          /\ posts[Len(posts)].response.id = order
    /\ (calls > 0 \/ asked # <<>>) =>
          /\ Len(posts) >= 1
          /\ posts[1].response.body = "order"
          /\ order_url = <<ORDERS_API_URL, posts[1].response.id>>
          /\ svc[posts[1].response.id] # "none"
    /\ cell \in {"place_order", "deliver_geometry"} /\ sdk_pc = "idle" =>
          (calls = 0 /\ asked = <<>> /\ reporter = Bar("", ""))

C23_Witness ==
    /\ notebook = "sdk"
    /\ sdk_pc = "wait"
    /\ order = "o2"
    /\ reporter = Bar("running", "o2")

LookupCells == {"mosaic_search", "quad_lookup", "sdk_mosaic_search", "sdk_quad_lookup"}

\* C24: the quad-id order is submitted only after both lookups gave a usable
\* answer. A lookup that fails is the last request of the run: after a failed
\* mosaic search there is no quad lookup, and after either failure no order is
\* built or submitted.
C24_OrderOnlyAfterLookups ==
    /\ \A i \in 1..Len(lookups) : ~lookups[i].ok =>
          /\ i = Len(lookups)
          /\ cell = "halted"
          /\ error.cell \in LookupCells
    /\ error.cell \in {"mosaic_search", "sdk_mosaic_search"} =>
          (Len(lookups) = 1 /\ ~lookups[1].ok /\ quad_ids = <<>>)
    /\ error.cell \in LookupCells =>
          /\ Len(posts) = 1
          /\ order_params = GeometryParams
    /\ Len(posts) >= 2 =>
          /\ Len(lookups) = 2
          /\ lookups[1].what = "mosaics" /\ lookups[1].ok /\ lookups[1].got # <<>>
          /\ lookups[2].what = "quads" /\ lookups[2].ok

C24_Witness ==
    /\ cell = "halted"
    /\ error.kind = "HTTPError"
    /\ error.cell = "mosaic_search"
    /\ Len(posts) = 1

\* C25: the quad_ids of the quad-id order, in the dictionary and in the body
\* sent, are the ids of the items the quad lookup returned for the first mosaic
\* of the search: one per item, in the order of the items.
C25_QuadIdsAreLookupIds ==
    /\ (Len(lookups) = 2 /\ lookups[2].ok) =>
          /\ lookups[2].mosaic = lookups[1].got[1]
          /\ Len(quad_ids) = Len(lookups[2].got)
          /\ \A i \in 1..Len(quad_ids) : quad_ids[i] = lookups[2].got[i].id
    /\ Len(posts) >= 2 =>
          LET sent == posts[2].spec.products[1].quad_ids
              read == json_loads(posts[2].body).products[1].quad_ids
              items == lookups[2].got
          IN  /\ Len(sent) = Len(items)
              /\ \A i \in 1..Len(items) :
                    /\ sent[i] = items[i].id
                    /\ items[i].mosaic = lookups[1].got[1]
              /\ read = sent

C25_Witness ==
    /\ Len(posts) = 2
    /\ lookups[1].got = <<"m2", "m1">>
    /\ lookups[2].mosaic = "m2"
    /\ posts[2].spec.products[1].quad_ids = <<"q2", "q2">>

\* C26: a listing cell of the analytics notebook prints the pagination hint
\* exactly when the number of records it got is 1000 or more.
C26_HintIffLimitReached ==
    \A i \in 1..Len(listed) : listed[i].hint <=> listed[i].count >= 1000

C26_Witness ==
    /\ Len(listed) = 2
    /\ listed[1].cell = "feeds" /\ listed[1].count = 1000 /\ listed[1].hint
    /\ listed[2].cell = "subscriptions" /\ listed[2].count = 999 /\ ~listed[2].hint

====
